---- MODULE Spec2Model ----
(***************************************************************************)
(* The Synacor virtual machine of src/src/main.rs: VM::load, the decoder   *)
(* (read_next, read_argument, read_instruction) and the dispatch loop      *)
(* VM::run, one action per match arm.                                      *)
(*                                                                         *)
(* memory is the array [u16; MEMORY_SIZE] kept as a finite map holding     *)
(* the non-zero cells only (every other cell reads 0), registers the array *)
(* [u16; 8], stack the Vec<u16>, pc the usize cursor.  status is where the *)
(* process stands: "new" after VM::new, "load_failed" when load returned   *)
(* Err, "running" inside run, "ok" / "err" when run returned Ok(()) or     *)
(* Err(msg) (msg is kept in err), "panic" when run panicked.               *)
(***************************************************************************)
EXTENDS Integers, Sequences, FiniteSets, TLC

VARIABLES memory, registers, stack, pc, status, err,
          output, input, chars, lines, nbytes, last, origin, delivered

vars == <<memory, registers, stack, pc, status, err,
          output, input, chars, lines, nbytes, last, origin, delivered>>

-----------------------------------------------------------------------------
(* Program constants *)

MEMORY_SIZE == 32767

U16 == 65536

NumRegisters == 8

(* Bounds of the model *)

MaxStack == 3

MaxOut == 2

MaxLines == 2

-----------------------------------------------------------------------------
(* Messages of the Err values and of the panics *)

NoError == ""

ErrLoad == "failed to load file"

ErrReadNext == "failed to get next u16"

ErrUnknownOp == "received unknown op code"

ErrArgument == "unable to convert to argument"

ErrCast == "failed to cast to char"

ErrPopEmpty == "called pop on an empty stack"

ErrStdin == "failed to read from stdin"

ErrUnhandled == "unable to handle instruction"

PanicIndex == "index out of bounds"

PanicRemZero == "attempt to calculate the remainder with a divisor of zero"

PanicAddOverflow == "attempt to add with overflow"

-----------------------------------------------------------------------------
(* Memory: the array as a finite map of its non-zero cells *)

MemGet(m, i) == IF i \in DOMAIN m THEN m[i] ELSE 0

\* a variant of MemPut with the operands swapped: the address is stored in
\* the cell the value names
MemPutSwapped(m, i, v) ==
    IF i = 0
    THEN [j \in DOMAIN m \ {v} |-> m[j]]
    ELSE [j \in DOMAIN m \cup {v} |-> IF j = v THEN i ELSE m[j]]

MemPut(m, i, v) ==
    IF v = 0
    THEN [j \in DOMAIN m \ {i} |-> m[j]]
    ELSE [j \in DOMAIN m \cup {i} |-> IF j = i THEN v ELSE m[j]]

ZeroMemory == [j \in {} |-> 0]

-----------------------------------------------------------------------------
(* 16-bit arithmetic *)

RECURSIVE BitAnd(_, _, _)
BitAnd(x, y, n) ==
    IF n = 0 THEN 0
    ELSE (x % 2) * (y % 2) + 2 * BitAnd(x \div 2, y \div 2, n - 1)

RECURSIVE BitOr(_, _, _)
BitOr(x, y, n) ==
    IF n = 0 THEN 0
    ELSE (IF x % 2 = 1 \/ y % 2 = 1 THEN 1 ELSE 0)
         + 2 * BitOr(x \div 2, y \div 2, n - 1)

AndWords(b, c) == BitAnd(b, c, 16)

OrWords(b, c) == BitOr(b, c, 16)

\* !(!0b0111_1111_1111_1111 | b) on u16
NotWord(b) == (U16 - 1) - BitOr(32768, b, 16)

\* the u16 sum before the reduction; it overflows u16 from 65536 on
AddOverflows(b, c) == b + c >= U16

\* a variant of AddWords that leaves out the reduction mod 32768
AddWordsUnreduced(b, c) == (b + c) % U16

\* (b + c) % 32768 with the sum wrapped to u16
AddWords(b, c) == ((b + c) % U16) % 32768

\* (b as u32 * c as u32) as u16 % 32768; the product is summed from the two
\* bytes of c so that no intermediate value leaves 32 bits
MultWords(b, c) ==
    ((((b * (c \div 256)) % 256) * 256 + b * (c % 256)) % U16) % 32768

ModWords(b, c) == b % c

EqWords(b, c) == IF b = c THEN 1 ELSE 0

GtWords(b, c) == IF b > c THEN 1 ELSE 0

\* value as u8, then char::try_from, which accepts every u8
OutChar(v) == v % 256

\* a variant of CharAsU16 that keeps the whole code point
CharUntruncated(ch) == ch

\* ch as u16
CharAsU16(ch) == ch % U16

-----------------------------------------------------------------------------
(* Decoder *)

OpFromWord(w) ==
    CASE w = 0 -> "Halt"   [] w = 1 -> "Set"    [] w = 2 -> "Push"
      [] w = 3 -> "Pop"    [] w = 4 -> "Eq"     [] w = 5 -> "Gt"
      [] w = 6 -> "Jmp"    [] w = 7 -> "Jt"     [] w = 8 -> "Jf"
      [] w = 9 -> "Add"    [] w = 10 -> "Mult"  [] w = 11 -> "Mod"
      [] w = 12 -> "And"   [] w = 13 -> "Or"    [] w = 14 -> "Not"
      [] w = 15 -> "Rmem"  [] w = 16 -> "Wmem"  [] w = 17 -> "Call"
      [] w = 18 -> "Ret"   [] w = 19 -> "Out"   [] w = 20 -> "In"
      [] w = 21 -> "Noop"  [] OTHER -> "Unknown"

\* a variant of ArgFromWord without the range check: a word above 32775 is
\* taken as a Literal
ArgFromWordUnchecked(w) ==
    IF w >= 32768 /\ w <= 32775 THEN [kind |-> "Register", v |-> w - 32768]
    ELSE [kind |-> "Literal", v |-> w]

ArgFromWord(w) ==
    IF w <= 32767 THEN [kind |-> "Literal", v |-> w]
    ELSE IF w <= 32775 THEN [kind |-> "Register", v |-> w - 32768]
    ELSE [kind |-> "Invalid", v |-> w]

\* a variant of Arity that reads two operand words for Out
ArityOutTwo(op) ==
    CASE op \in {"Halt", "Noop", "Ret"} -> 0
      [] op \in {"Jmp", "Push", "Pop", "Call", "In"} -> 1
      [] op \in {"Out", "Jt", "Jf", "Set", "Not", "Rmem", "Wmem"} -> 2
      [] op \in {"Add", "Eq", "Gt", "And", "Or", "Mult", "Mod"} -> 3

Arity(op) ==
    CASE op \in {"Halt", "Noop", "Ret"} -> 0
      [] op \in {"Out", "Jmp", "Push", "Pop", "Call", "In"} -> 1
      [] op \in {"Jt", "Jf", "Set", "Not", "Rmem", "Wmem"} -> 2
      [] op \in {"Add", "Eq", "Gt", "And", "Or", "Mult", "Mod"} -> 3

\* a variant of read_arguments whose reads past the last cell give 0, as
\* reads of an empty cell do, in place of the Err of read_next
RECURSIVE read_arguments_unchecked(_, _, _)
read_arguments_unchecked(p, n, acc) ==
    IF n = 0 THEN [err |-> NoError, pc |-> p, args |-> acc]
    ELSE LET arg == ArgFromWord(MemGet(memory, p))
         IN  IF arg.kind = "Invalid"
             THEN [err |-> ErrArgument, pc |-> p + 1, args |-> acc]
             ELSE read_arguments_unchecked(p + 1, n - 1, Append(acc, arg))

\* read_argument, n times from p: the words read, the cursor reached, the
\* error that stopped it
RECURSIVE read_arguments(_, _, _)
read_arguments(p, n, acc) ==
    IF n = 0 THEN [err |-> NoError, pc |-> p, args |-> acc]
    ELSE IF p >= MEMORY_SIZE
         THEN [err |-> ErrReadNext, pc |-> p, args |-> acc]
         ELSE LET arg == ArgFromWord(MemGet(memory, p))
              IN  IF arg.kind = "Invalid"
                  THEN [err |-> ErrArgument, pc |-> p + 1, args |-> acc]
                  ELSE read_arguments(p + 1, n - 1, Append(acc, arg))

\* the instruction at pc: its opcode, its operands, the cursor after it
read_instruction ==
    IF pc >= MEMORY_SIZE
    THEN [err |-> ErrReadNext, pc |-> pc, op |-> "Unknown", args |-> <<>>]
    ELSE LET op == OpFromWord(MemGet(memory, pc))
         IN  IF op = "Unknown"
             THEN [err |-> ErrUnknownOp, pc |-> pc + 1, op |-> op, args |-> <<>>]
             ELSE LET r == read_arguments(pc + 1, Arity(op), <<>>)
                  IN  [err |-> r.err, pc |-> r.pc, op |-> op, args |-> r.args]

get_value(arg) == IF arg.kind = "Literal" THEN arg.v ELSE registers[arg.v]

IsRegister(arg) == arg.kind = "Register"

\* a variant of DestinationMatches that accepts a Literal too
DestinationMatchesAny(arg) == TRUE

\* the pattern a: Some(Arg::Register(_)) of the arms that store in a register
DestinationMatches(arg) == arg.kind = "Register"

\* a variant of JfTaken with Jt's condition
JfTakenIfNonZero(a) == a # 0

\* if self.get_value(a) != 0, of Jt
JtTaken(a) == a # 0

\* if self.get_value(a) == 0, of Jf
JfTaken(a) == a = 0

\* the loop guard held and the decoder returned an instruction of opcode op
Fetched(op) ==
    /\ status = "running"
    /\ pc < MEMORY_SIZE
    /\ OpFromWord(MemGet(memory, pc)) = op
    /\ read_instruction.err = NoError


-----------------------------------------------------------------------------
(* Stack *)

\* a variant of Popped that takes the oldest element
PoppedFirst(s) == [value |-> Head(s), rest |-> Tail(s)]

\* Vec::pop on a non-empty stack: the last element and what is left
Popped(s) == [value |-> s[Len(s)], rest |-> SubSeq(s, 1, Len(s) - 1)]

\* a variant of ReturnAddress that pushes the address of the Call itself
ReturnAddressOfCall(inst) == (inst.pc - 2) % U16

\* what Call pushes: self.pc as u16, the cursor after the Call's words
ReturnAddress(inst) == inst.pc % U16

\* a variant of EmptyStackOutcome in which Ret fails like Pop
EmptyStackFails(op) == [status |-> "err", err |-> ErrPopEmpty]

\* a variant of EmptyStackOutcome in which Pop ends run like Ret
EmptyStackEndsRun(op) == [status |-> "ok", err |-> NoError]

\* Pop and Ret when Vec::pop returns None
EmptyStackOutcome(op) ==
    IF op = "Pop" THEN [status |-> "err", err |-> ErrPopEmpty]
    ELSE [status |-> "ok", err |-> NoError]

-----------------------------------------------------------------------------
(* The byte buffers given to load and the lines given by stdin *)

\* &[u8] of length len: the bytes of data, then zero bytes
ByteAt(buf, i) == IF i < Len(buf.data) THEN buf.data[i + 1] ELSE 0

RECURSIVE Bytes(_)
Bytes(ws) ==
    IF ws = <<>> THEN <<>>
    ELSE <<Head(ws) % 256, Head(ws) \div 256>> \o Bytes(Tail(ws))

\* one encoding of every opcode, of every failure of the decoder and of the
\* dispatch, with operands 0 = Halt, literals, r0 = 32768, r1 = 32769
Pool ==
    { <<0>>, <<21>>, <<18>>, <<22>>,
      <<19, 65>>, <<19, 32768>>, <<19, 32776>>,
      <<6, 32768>>, <<6, 32767>>,
      <<2, 32768>>, <<2, 7>>,
      <<3, 32768>>, <<3, 5>>,
      <<17, 3>>, <<17, 32768>>,
      <<20, 32768>>, <<20, 1>>,
      <<7, 32768, 32767>>, <<8, 32768, 32767>>,
      <<1, 32768, 32767>>, <<1, 32769, 3>>, <<1, 4, 4>>,
      <<14, 32768, 32768>>,
      <<15, 32768, 1>>, <<15, 32768, 32768>>,
      <<16, 32768, 19>>,
      <<9, 32768, 32768, 32768>>,
      <<4, 32768, 32768, 0>>,
      <<5, 32768, 32768, 7>>,
      <<12, 32768, 32768, 21845>>,
      <<13, 32769, 32768, 1>>,
      <<10, 32768, 32768, 32768>>,
      <<11, 32768, 7, 32769>>, <<11, 32768, 32768, 7>> }

\* operand words for the three-operand opcodes
ArithWords == {0, 1, 2, 255, 256, 16384, 32766, 32767}

ArithPrograms ==
    { <<op, 32768, b, c>> : op \in {4, 5, 9, 10, 11, 12, 13},
                            b \in ArithWords, c \in ArithWords }

\* a Call and the routine it enters
StackPool == { <<18>>, <<2, 7>>, <<3, 32768>>, <<17, 4>>, <<21>>, <<0>> }

Routines ==
    { <<17, t>> \o a \o b \o c :
        t \in {2, 3, 4}, a \in StackPool, b \in StackPool, c \in StackPool }

\* images of one and of three instructions; the cells after them are 0, Halt
\* a conditional jump alone: the condition a literal or register 0, the
\* target the jump itself, the word after the jump, a later word, or the
\* first address past the memory
Branches ==
    { <<op, a, b>> : op \in {7, 8}, a \in {0, 1, 32768}, b \in {0, 3, 5, 32767} }

\* Wmem puts an opcode in one of the last cells of the memory and Jmp goes
\* there; the cells after it are zero, and some of its operand words would
\* lie past the last cell
LastCells == { 32763, 32764, 32765, 32766 }

Tails ==
    { <<16, t, op, 6, t>> : t \in LastCells, op \in {21, 19, 7, 9} }

\* one instruction of each opcode that stores in a register, with the
\* Literal 5 in the destination slot; the Rmem reads past the memory and the
\* Mod divides by zero, should their arms run
LiteralDestinations ==
    { <<1, 5, 7>>, <<3, 5>>, <<4, 5, 1, 1>>, <<5, 5, 2, 1>>, <<9, 5, 1, 1>>,
      <<10, 5, 2, 2>>, <<11, 5, 1, 0>>, <<12, 5, 3, 1>>, <<13, 5, 1, 2>>,
      <<14, 5, 0>>, <<15, 5, 32767>>, <<20, 5>> }

Programs ==
    Pool \cup { a \o b \o c : a \in Pool, b \in Pool, c \in Pool }
    \cup ArithPrograms \cup Routines \cup Branches \cup Tails
    \cup LiteralDestinations

\* whole images, images cut one byte short, images padded with zero bytes
\* up to and past twice the capacity
Buffers ==
    { [len |-> 2 * Len(p), data |-> Bytes(p)] : p \in Programs }
    \cup { [len |-> 2 * Len(p) - 1,
             data |-> SubSeq(Bytes(p), 1, 2 * Len(p) - 1)] : p \in Pool }
    \cup { [len |-> 2 * MEMORY_SIZE + d, data |-> Bytes(p)] :
             p \in Pool, d \in {-1, 0, 1, 2} }

\* lines of character codes as read_line returns them; the last one has no
\* terminator and a character above U+FFFF
Lines == { <<65, 10>>, <<10>>, <<128512>> }

Terminated(line) == line[Len(line)] = 10

\* only the last line of the input can lack its terminator
MayReadLine == IF lines = <<>> THEN TRUE ELSE Terminated(lines[Len(lines)])

-----------------------------------------------------------------------------
(* VM::new, and run's input buffer *)

\* history: no instruction executed yet
NoInstruction ==
    [op |-> "None", at |-> 0, dst |-> -1, x |-> -1, y |-> -1,
     jumped |-> FALSE, stack |-> <<>>, before |-> "None"]

Init ==
    /\ memory = ZeroMemory
    /\ registers = [r \in 0..(NumRegisters - 1) |-> 0]
    /\ stack = <<>>
    /\ pc = 0
    /\ status = "new"
    /\ err = NoError
    /\ output = <<>>
    /\ input = <<>>
    /\ chars = <<>>
    /\ lines = <<>>
    /\ nbytes = 0
    /\ last = NoInstruction
    /\ origin = <<>>
    /\ delivered = <<>>

\* history: the instruction being executed (its opcode, its address, its
\* destination register, the values of its operands, whether it set pc), the
\* stack it started from and the opcode executed before it
Executing(op, dst, x, y, jumped) ==
    [op |-> op, at |-> pc, dst |-> dst, x |-> x, y |-> y,
     jumped |-> jumped, stack |-> stack, before |-> last.op]

\* history: who pushed a stack entry, a Push or the Call at address call
\* that left the stack as given
PushedByPush == [call |-> -1, stack |-> <<>>]

PushedByCall(at, after) == [call |-> at, stack |-> after]

-----------------------------------------------------------------------------
(* VM::load, followed by main's unwrap and the call of run *)

Min(a, b) == IF a < b THEN a ELSE b

\* ((hi as u16) << 8) | (lo as u16) of chunk k
LoadedWord(buf, k) == ByteAt(buf, 2 * k + 1) * 256 + ByteAt(buf, 2 * k)

\* bytes.chunks(2)
NumChunks(buf) == (buf.len + 1) \div 2

\* the chunks zip pairs with a memory cell
NumVisited(buf) == Min(NumChunks(buf), MEMORY_SIZE)

\* a visited chunk of one byte: only the last chunk can be one
LoadFails(buf) == buf.len % 2 = 1 /\ NumChunks(buf) <= MEMORY_SIZE

NumWritten(buf) == IF LoadFails(buf) THEN NumVisited(buf) - 1 ELSE NumVisited(buf)

LoadedMemory(buf) ==
    LET n == Min(NumWritten(buf), (Len(buf.data) + 1) \div 2)
    IN  [k \in {j \in 0..(n - 1) : LoadedWord(buf, j) # 0} |-> LoadedWord(buf, k)]

load(buf) ==
    /\ status = "new"
    /\ memory' = LoadedMemory(buf)
    /\ nbytes' = buf.len
    /\ IF LoadFails(buf)
       THEN status' = "load_failed" /\ err' = ErrLoad
       ELSE status' = "running" /\ err' = NoError
    /\ UNCHANGED <<delivered, registers, stack, pc, output, input, chars, lines, last, origin>>

Load ==
    /\ status = "new"
    /\ \E buf \in Buffers : load(buf)

-----------------------------------------------------------------------------
(* VM::run *)

\* while self.pc < self.memory.len() fails: Ok(())
LoopExit ==
    /\ status = "running"
    /\ pc >= MEMORY_SIZE
    /\ status' = "ok"
    /\ UNCHANGED <<delivered, memory, registers, stack, pc, err, output, input, chars,
                   lines, nbytes, last, origin>>

\* self.read_instruction()? returns the decoder's Err
DecodeFail ==
    /\ status = "running"
    /\ pc < MEMORY_SIZE
    /\ read_instruction.err # NoError
    /\ status' = "err"
    /\ err' = read_instruction.err
    /\ pc' = read_instruction.pc
    /\ last' = Executing("Decode", -1, -1, -1, FALSE)
    /\ UNCHANGED <<delivered, memory, registers, stack, output, input, chars, lines,
                   nbytes, origin>>

Halt ==
    /\ Fetched("Halt")
    /\ status' = "ok"
    /\ pc' = read_instruction.pc
    /\ last' = Executing("Halt", -1, -1, -1, FALSE)
    /\ UNCHANGED <<delivered, memory, registers, stack, err, output, input, chars, lines,
                   nbytes, origin>>

Noop ==
    /\ Fetched("Noop")
    /\ pc' = read_instruction.pc
    /\ last' = Executing("Noop", -1, -1, -1, FALSE)
    /\ UNCHANGED <<delivered, memory, registers, stack, status, err, output, input, chars,
                   lines, nbytes, origin>>

Ret ==
    /\ Fetched("Ret")
    /\ IF stack # <<>>
       THEN /\ pc' = Popped(stack).value
            /\ stack' = Popped(stack).rest
            /\ origin' = SubSeq(origin, 1, Len(origin) - 1)
            /\ last' = Executing("Ret", -1, origin[Len(origin)].call, -1, TRUE)
            /\ UNCHANGED <<status, err>>
       ELSE /\ pc' = read_instruction.pc
            /\ status' = EmptyStackOutcome("Ret").status
            /\ err' = EmptyStackOutcome("Ret").err
            /\ last' = Executing("Ret", -1, -1, -1, FALSE)
            /\ UNCHANGED <<stack, origin>>
    /\ UNCHANGED <<delivered, memory, registers, output, input, chars, lines, nbytes>>

\* stdout is taken to accept every write; output is bounded by MaxOut
Out ==
    /\ Fetched("Out")
    /\ Len(output) < MaxOut
    /\ LET value == get_value(read_instruction.args[1])
       IN  /\ output' = Append(output, OutChar(value))
           /\ last' = Executing("Out", -1, value, -1, FALSE)
    /\ pc' = read_instruction.pc
    /\ UNCHANGED <<delivered, memory, registers, stack, status, err, input, chars, lines,
                   nbytes, origin>>

Jmp ==
    /\ Fetched("Jmp")
    /\ LET target == get_value(read_instruction.args[1])
       IN  /\ pc' = target
           /\ last' = Executing("Jmp", -1, target, -1, TRUE)
    /\ UNCHANGED <<delivered, memory, registers, stack, status, err, output, input, chars,
                   lines, nbytes, origin>>

\* the stack is bounded by MaxStack
Push ==
    /\ Fetched("Push")
    /\ Len(stack) < MaxStack
    /\ LET value == get_value(read_instruction.args[1])
       IN  /\ stack' = Append(stack, value)
           /\ last' = Executing("Push", -1, value, -1, FALSE)
    /\ origin' = Append(origin, PushedByPush)
    /\ pc' = read_instruction.pc
    /\ UNCHANGED <<delivered, memory, registers, status, err, output, input, chars, lines,
                   nbytes>>

Pop ==
    /\ Fetched("Pop")
    /\ DestinationMatches(read_instruction.args[1])
    /\ LET a == read_instruction.args[1].v
       IN  /\ last' = Executing("Pop", a, -1, -1, FALSE)
           /\ IF stack # <<>>
              THEN /\ registers' = [registers EXCEPT ![a] = Popped(stack).value]
                   /\ stack' = Popped(stack).rest
                   /\ origin' = SubSeq(origin, 1, Len(origin) - 1)
                   /\ UNCHANGED <<status, err>>
              ELSE /\ status' = EmptyStackOutcome("Pop").status
                   /\ err' = EmptyStackOutcome("Pop").err
                   /\ UNCHANGED <<registers, stack, origin>>
    /\ pc' = read_instruction.pc
    /\ UNCHANGED <<delivered, memory, output, input, chars, lines, nbytes>>

\* the stack is bounded by MaxStack
Call ==
    /\ Fetched("Call")
    /\ Len(stack) < MaxStack
    /\ LET target == get_value(read_instruction.args[1])
       IN  /\ stack' = Append(stack, ReturnAddress(read_instruction))
           /\ pc' = target
           /\ last' = Executing("Call", -1, target, -1, TRUE)
    /\ origin' = Append(origin, PushedByCall(pc, Append(stack, ReturnAddress(read_instruction))))
    /\ UNCHANGED <<memory, registers, status, err, output, input, chars, lines,
                   nbytes, delivered>>

\* what chars.next() leaves in the iterator
Rest(cs) == Tail(cs)

\* a variant of EndOfInputStatus that treats the end of input as a failure
EndOfInputFails == "err"

\* None from chars.next() on the line just read: return Ok(())
EndOfInputStatus == "ok"

\* stdin gives at most MaxLines lines, then the end of input; the end of input
\* is recorded in lines as an empty line, which is what read_line leaves
In ==
    /\ Fetched("In")
    /\ DestinationMatches(read_instruction.args[1])
    /\ LET reg == read_instruction.args[1].v
       IN  /\ last' = Executing("In", reg, -1, -1, FALSE)
           /\ IF chars # <<>>
              THEN \* chars.next() is Some(ch)
                   /\ registers' = [registers EXCEPT ![reg] = CharAsU16(Head(chars))]
                   /\ delivered' = Append(delivered, CharAsU16(Head(chars)))
                   /\ chars' = Rest(chars)
                   /\ UNCHANGED <<input, lines, status, err>>
              ELSE \* input.clear(); read_line(&mut input)
                   \/ \E line \in Lines :
                        /\ Len(lines) < MaxLines
                        /\ MayReadLine
                        /\ input' = line
                        /\ lines' = Append(lines, line)
                        /\ registers' = [registers EXCEPT ![reg] = CharAsU16(Head(line))]
                        /\ delivered' = Append(delivered, CharAsU16(Head(line)))
                        /\ chars' = Rest(line)
                        /\ UNCHANGED <<status, err>>
                   \/ \* end of input: the line read is empty, return Ok(())
                      /\ input' = <<>>
                      /\ lines' = Append(lines, <<>>)
                      /\ chars' = <<>>
                      /\ status' = EndOfInputStatus
                      /\ UNCHANGED <<registers, delivered, err>>
                   \/ \* read_line returned Err
                      /\ input' = <<>>
                      /\ status' = "err"
                      /\ err' = ErrStdin
                      /\ UNCHANGED <<registers, delivered, chars, lines>>
    /\ pc' = read_instruction.pc
    /\ UNCHANGED <<memory, stack, output, nbytes, origin>>

Jt ==
    /\ Fetched("Jt")
    /\ LET a == get_value(read_instruction.args[1])
           b == get_value(read_instruction.args[2])
       IN  /\ pc' = IF JtTaken(a) THEN b ELSE read_instruction.pc
           /\ last' = Executing("Jt", -1, a, b, JtTaken(a))
    /\ UNCHANGED <<delivered, memory, registers, stack, status, err, output, input, chars,
                   lines, nbytes, origin>>

Jf ==
    /\ Fetched("Jf")
    /\ LET a == get_value(read_instruction.args[1])
           b == get_value(read_instruction.args[2])
       IN  /\ pc' = IF JfTaken(a) THEN b ELSE read_instruction.pc
           /\ last' = Executing("Jf", -1, a, b, JfTaken(a))
    /\ UNCHANGED <<delivered, memory, registers, stack, status, err, output, input, chars,
                   lines, nbytes, origin>>

\* self.registers[reg] = value, for the arms that cannot fail
Store(op, x, y, value) ==
    /\ registers' = [registers EXCEPT ![read_instruction.args[1].v] = value]
    /\ last' = Executing(op, read_instruction.args[1].v, x, y, FALSE)
    /\ pc' = read_instruction.pc
    /\ UNCHANGED <<delivered, memory, stack, status, err, output, input, chars, lines,
                   nbytes, origin>>

\* the arm panicked after the decoder advanced pc
Panic(op, x, y, message) ==
    /\ status' = "panic"
    /\ err' = message
    /\ last' = Executing(op, -1, x, y, FALSE)
    /\ pc' = read_instruction.pc
    /\ UNCHANGED <<delivered, memory, registers, stack, output, input, chars, lines,
                   nbytes, origin>>

Set ==
    /\ Fetched("Set")
    /\ DestinationMatches(read_instruction.args[1])
    /\ LET b == get_value(read_instruction.args[2])
       IN  Store("Set", b, -1, b)

Not ==
    /\ Fetched("Not")
    /\ DestinationMatches(read_instruction.args[1])
    /\ \E b \in {get_value(read_instruction.args[2])} :
          Store("Not", b, -1, NotWord(b))

Rmem ==
    /\ Fetched("Rmem")
    /\ DestinationMatches(read_instruction.args[1])
    /\ LET b == get_value(read_instruction.args[2])
       IN  IF b < MEMORY_SIZE
           THEN Store("Rmem", b, -1, MemGet(memory, b))
           ELSE Panic("Rmem", b, -1, PanicIndex)

Wmem ==
    /\ Fetched("Wmem")
    /\ LET a == get_value(read_instruction.args[1])
           b == get_value(read_instruction.args[2])
       IN  IF a < MEMORY_SIZE
           THEN /\ memory' = MemPut(memory, a, b)
                /\ last' = Executing("Wmem", -1, a, b, FALSE)
                /\ pc' = read_instruction.pc
                /\ UNCHANGED <<registers, stack, status, err, output, input,
                               chars, lines, nbytes, origin, delivered>>
           ELSE Panic("Wmem", a, b, PanicIndex)

Add ==
    /\ Fetched("Add")
    /\ DestinationMatches(read_instruction.args[1])
    /\ LET b == get_value(read_instruction.args[2])
           c == get_value(read_instruction.args[3])
       IN  IF AddOverflows(b, c)
           THEN \* a build with overflow checks panics, one without wraps
                \/ Panic("Add", b, c, PanicAddOverflow)
                \/ Store("Add", b, c, AddWords(b, c))
           ELSE Store("Add", b, c, AddWords(b, c))

Eq ==
    /\ Fetched("Eq")
    /\ DestinationMatches(read_instruction.args[1])
    /\ LET b == get_value(read_instruction.args[2])
           c == get_value(read_instruction.args[3])
       IN  Store("Eq", b, c, EqWords(b, c))

Gt ==
    /\ Fetched("Gt")
    /\ DestinationMatches(read_instruction.args[1])
    /\ LET b == get_value(read_instruction.args[2])
           c == get_value(read_instruction.args[3])
       IN  Store("Gt", b, c, GtWords(b, c))

And ==
    /\ Fetched("And")
    /\ DestinationMatches(read_instruction.args[1])
    /\ \E b \in {get_value(read_instruction.args[2])},
          c \in {get_value(read_instruction.args[3])} :
          Store("And", b, c, AndWords(b, c))

Or ==
    /\ Fetched("Or")
    /\ DestinationMatches(read_instruction.args[1])
    /\ \E b \in {get_value(read_instruction.args[2])},
          c \in {get_value(read_instruction.args[3])} :
          Store("Or", b, c, OrWords(b, c))

Mult ==
    /\ Fetched("Mult")
    /\ DestinationMatches(read_instruction.args[1])
    /\ LET b == get_value(read_instruction.args[2])
           c == get_value(read_instruction.args[3])
       IN  Store("Mult", b, c, MultWords(b, c))

Mod ==
    /\ Fetched("Mod")
    /\ DestinationMatches(read_instruction.args[1])
    /\ LET b == get_value(read_instruction.args[2])
           c == get_value(read_instruction.args[3])
       IN  IF c # 0
           THEN Store("Mod", b, c, ModWords(b, c))
           ELSE Panic("Mod", b, c, PanicRemZero)

\* the opcodes whose arm matches a: Some(Arg::Register(_)) only
DestinationOps ==
    {"Pop", "In", "Set", "Not", "Rmem", "Add", "Eq", "Gt", "And", "Or", "Mult", "Mod"}

\* the fallback arm: the destination slot holds a Literal
Unhandled ==
    /\ status = "running"
    /\ pc < MEMORY_SIZE
    /\ read_instruction.err = NoError
    /\ read_instruction.op \in DestinationOps
    /\ ~DestinationMatches(read_instruction.args[1])
    /\ status' = "err"
    /\ err' = ErrUnhandled
    /\ pc' = read_instruction.pc
    /\ last' = Executing(read_instruction.op, -1, -1, -1, FALSE)
    /\ UNCHANGED <<delivered, memory, registers, stack, output, input, chars, lines,
                   nbytes, origin>>

-----------------------------------------------------------------------------

Next ==
    \/ Load
    \/ LoopExit
    \/ DecodeFail
    \/ Halt
    \/ Noop
    \/ Ret
    \/ Out
    \/ Jmp
    \/ Push
    \/ Pop
    \/ Call
    \/ In
    \/ Jt
    \/ Jf
    \/ Set
    \/ Not
    \/ Rmem
    \/ Wmem
    \/ Add
    \/ Eq
    \/ Gt
    \/ And
    \/ Or
    \/ Mult
    \/ Mod
    \/ Unhandled

Spec == Init /\ [][Next]_vars

-----------------------------------------------------------------------------
(* Properties *)

\* the operands of the instruction at pc
ArgA == read_instruction.args[1]

ArgB == read_instruction.args[2]

ArgC == read_instruction.args[3]

\* an opcode has completed during run
OpcodeCompleted ==
    /\ status \in {"running", "ok"}
    /\ last.op \notin {"None", "Decode"}

AllCellsBelow(limit) ==
    /\ \A r \in DOMAIN registers : registers[r] \in 0..(limit - 1)
    /\ \A i \in DOMAIN memory : memory[i] \in 0..(limit - 1)

\* C1 as stated: after every completed opcode each register and each memory
\* cell holds a value in 0..32767.
C1_CellsAre15Bit == OpcodeCompleted => AllCellsBelow(32768)

\* C1 amended: after every completed opcode each register and each memory
\* cell holds a value in 0..65535, and the register just written by Add,
\* Mult, Not, Eq or Gt holds a value in 0..32767.
C1_CellsAre16Bit ==
    OpcodeCompleted =>
        /\ AllCellsBelow(U16)
        /\ last.op \in {"Add", "Mult", "Not", "Eq", "Gt"}
              => registers[last.dst] \in 0..32767

\* C1 witness: an opcode has completed with a register and a memory cell
\* above 32767.
C1_Witness ==
    /\ OpcodeCompleted
    /\ \E r \in DOMAIN registers : registers[r] > 32767
    /\ \E i \in DOMAIN memory : memory[i] > 32767

\* C2: when Jmp, a taken Jt/Jf, Call or Ret has set pc to a value that is no
\* memory index, run does not end successfully.
C2_JumpOutOfMemoryFails ==
    (last.jumped /\ pc >= MEMORY_SIZE) => status # "ok"

\* C3: Rmem a b with value(b), or Wmem a b with value(a), outside
\* 0..MEMORY_SIZE-1 makes run return Err, with no register and no memory cell
\* written.
C3_MemoryIndexChecked ==
    [][ (\/ Fetched("Rmem") /\ IsRegister(ArgA) /\ get_value(ArgB) >= MEMORY_SIZE
         \/ Fetched("Wmem") /\ get_value(ArgA) >= MEMORY_SIZE)
        => (status' = "err" /\ registers' = registers /\ memory' = memory) ]_vars

\* C4: load of a byte buffer of odd length returns Err, whatever the length,
\* and no instruction is executed after it.
C4_OddLengthRejected ==
    (status # "new" /\ nbytes % 2 = 1)
        => (status = "load_failed" /\ last = NoInstruction)

\* C5: Out a writes the one character of code value(a) when value(a) is in
\* 0..255, and for value(a) >= 256 writes nothing and run returns the
\* cast's Err.
C5_OutChecksByteRange ==
    [][ Fetched("Out") =>
          IF get_value(ArgA) <= 255
          THEN output' = Append(output, get_value(ArgA)) /\ status' = "running"
          ELSE output' = output /\ status' = "err" /\ err' = ErrCast ]_vars

\* C6: Mod a b c with value(c) = 0 makes run return Err, and register a is
\* not written.
C6_ModByZeroReturnsErr ==
    [][ (Fetched("Mod") /\ IsRegister(ArgA) /\ get_value(ArgC) = 0)
        => (status' = "err" /\ registers' = registers) ]_vars

\* C7: for b, c in 0..32767, Add a b c stores (b + c) mod 32768 and
\* Mult a b c stores (b * c) mod 32768 in register a, and run goes on.
C7_AddMultModulo ==
    [][ /\ (Fetched("Add") /\ IsRegister(ArgA)
              /\ get_value(ArgB) <= 32767 /\ get_value(ArgC) <= 32767)
           => /\ registers'[ArgA.v] = (get_value(ArgB) + get_value(ArgC)) % 32768
              /\ status' = "running"
        /\ (Fetched("Mult") /\ IsRegister(ArgA)
              /\ get_value(ArgB) <= 32767 /\ get_value(ArgC) <= 32767)
           => /\ registers'[ArgA.v] = (get_value(ArgB) * get_value(ArgC)) % 32768
              /\ status' = "running" ]_vars

\* C7 witness: Mult has stored the product of two Words that does not fit
\* in 16 bits, reduced mod 32768.
C7_Witness ==
    /\ status = "running"
    /\ last.op = "Mult"
    /\ last.x \in 0..32767 /\ last.y \in 0..32767
    /\ last.x * last.y >= U16
    /\ registers[last.dst] = (last.x * last.y) % 32768

\* C8: Pop on an empty stack makes run return the Err of the empty stack,
\* Ret on an empty stack makes run return Ok(()); both leave registers,
\* memory and stack as they were.
C8_EmptyStack ==
    [][ /\ (Fetched("Pop") /\ IsRegister(ArgA) /\ stack = <<>>)
           => /\ status' = "err" /\ err' = ErrPopEmpty
              /\ UNCHANGED <<registers, memory, stack>>
        /\ (Fetched("Ret") /\ stack = <<>>)
           => /\ status' = "ok" /\ err' = NoError
              /\ UNCHANGED <<registers, memory, stack>> ]_vars

\* C8 witness: run has returned Ok(()) from a Ret on the empty stack, after
\* an earlier instruction had written a register.
C8_Witness ==
    /\ status = "ok"
    /\ last.op = "Ret" /\ last.stack = <<>> /\ stack = <<>>
    /\ \E r \in DOMAIN registers : registers[r] # 0

\* C9: a Ret executed with the stack as the Call at address p left it sets
\* pc to p + 2 and removes exactly the entry that Call pushed.
C9_RetResumesAfterCall ==
    [][ (/\ Fetched("Ret") /\ stack # <<>>
         /\ origin[Len(origin)].call >= 0
         /\ origin[Len(origin)].stack = stack)
        => /\ pc' = origin[Len(origin)].call + 2
           /\ stack' = SubSeq(stack, 1, Len(stack) - 1)
           /\ Append(stack', pc') = stack ]_vars

\* C9 witness: a Ret has returned to the instruction after the Call that
\* pushed its entry, from a routine that executed a Pop before it.
C9_Witness ==
    /\ status = "running"
    /\ last.op = "Ret" /\ last.jumped
    /\ last.x >= 0 /\ pc = last.x + 2
    /\ last.before = "Pop"
    /\ Append(stack, pc) = last.stack

\* C10: Push v immediately followed by Pop r leaves register r equal to v and
\* the stack as it was before the Push.
C10_PushPopRoundTrip ==
    [][ (/\ status = "running" /\ last.op = "Push"
         /\ Fetched("Pop") /\ IsRegister(ArgA))
        => /\ registers'[ArgA.v] = last.x
           /\ stack' = last.stack
           /\ status' = "running" ]_vars

\* C10 witness: a Pop right after a Push has restored a non-empty stack and
\* stored the pushed value, which differs from the entry below it.
C10_Witness ==
    /\ status = "running"
    /\ last.op = "Pop" /\ last.before = "Push"
    /\ stack # <<>>
    /\ registers[last.dst] = last.stack[Len(last.stack)]
    /\ registers[last.dst] # stack[Len(stack)]

\* C11: Jt a b sets pc to value(b) exactly when value(a) is not 0, and Jf a b
\* exactly when value(a) is 0; otherwise pc is the address of the opcode plus
\* 3; registers, memory and stack are as before in both cases
C11_ConditionalJumps ==
    [][ /\ Fetched("Jt") =>
              /\ pc' = IF get_value(ArgA) # 0 THEN get_value(ArgB) ELSE pc + 3
              /\ UNCHANGED <<registers, memory, stack>>
        /\ Fetched("Jf") =>
              /\ pc' = IF get_value(ArgA) = 0 THEN get_value(ArgB) ELSE pc + 3
              /\ UNCHANGED <<registers, memory, stack>> ]_vars

\* a Jf that found a non-zero value fell through to the word after its
\* operands, which is not its target
C11_Witness ==
    /\ last.op = "Jf"
    /\ last.x # 0
    /\ ~last.jumped
    /\ pc = last.at + 3
    /\ pc # last.y

\* C12: when In runs with the line buffer exhausted and stdin at its end,
\* run ends successfully, and the destination register, the other registers,
\* memory and stack are as before
C12_EndOfInputEndsOk ==
    [][ ( /\ Fetched("In")
          /\ IsRegister(ArgA)
          /\ chars = <<>>
          /\ lines' = Append(lines, <<>>) )
        => /\ status' = "ok"
           /\ err' = NoError
           /\ UNCHANGED <<registers, memory, stack>> ]_vars

\* run ended successfully in an In that found the end of input after a whole
\* line had been delivered; the register still holds the line's terminator
C12_Witness ==
    /\ status = "ok"
    /\ last.op = "In"
    /\ Len(lines) = 2
    /\ lines[2] = <<>>
    /\ chars = <<>>
    /\ registers[last.dst] = 10

\* the characters of the lines read so far, in the order read
RECURSIVE Flatten(_)
Flatten(ls) ==
    IF ls = <<>> THEN <<>>
    ELSE Flatten(SubSeq(ls, 1, Len(ls) - 1)) \o ls[Len(ls)]

\* C13: the values stored by successive In executions, followed by the
\* characters still in the line buffer, are the characters of the lines read,
\* in order, none skipped or repeated, terminators included; so a line is read
\* only when the previous one has been delivered whole; and the register an In
\* has just written holds the last value delivered
C13_DeliversCharacters ==
    /\ delivered \o chars = Flatten(lines)
    /\ (status = "running" /\ last.op = "In")
          => registers[last.dst] = delivered[Len(delivered)]

\* what C13 leaves of the order when each character is taken modulo 2^16,
\* as the cast ch as u16 does
C13_DeliversLowBits ==
    /\ [](/\ Len(delivered) + Len(chars) = Len(Flatten(lines))
          /\ \A i \in 1..Len(Flatten(lines)) :
                (delivered \o chars)[i] % 65536 = Flatten(lines)[i] % 65536)
    /\ [][lines' # lines => chars = <<>>]_vars

\* run has ended with a failure: an Err result or a panic
Failed == status \in {"err", "panic"}

\* the instruction at pc is one the bounds MaxStack and MaxOut keep from
\* running, though the program would run it
AtBound ==
    \/ Len(stack) >= MaxStack /\ (Fetched("Push") \/ Fetched("Call"))
    \/ Len(output) >= MaxOut /\ Fetched("Out")

\* run has returned or panicked
Ended == status \notin {"new", "load_failed", "running"}

\* run is in its loop with an instruction to decode
InLoop == status = "running" /\ pc < MEMORY_SIZE

\* the last instruction was an In that found the end of input
EndOfInputSeen ==
    /\ last.op = "In"
    /\ lines # <<>>
    /\ lines[Len(lines)] = <<>>

\* C14 as stated: run has ended successfully only after Halt, after Ret on
\* an empty stack, or with pc past the end of memory (any other end is a
\* failure), and in every other state a further instruction is decoded
C14_EndsOnlyAsListed ==
    /\ Ended =>
          \/ Failed
          \/ last.op = "Halt"
          \/ last.op = "Ret" /\ last.stack = <<>>
          \/ pc >= MEMORY_SIZE
    /\ (InLoop /\ ~AtBound) => ENABLED Next

\* C14 amended: run has ended successfully only after Halt, after Ret on an
\* empty stack, after an In at the end of input, or with pc past the end of
\* memory; any other end is a failure; in every other state a further
\* instruction is decoded
C14_EndsAsListedOrEndOfInput ==
    /\ Ended =>
          \/ Failed
          \/ last.op = "Halt"
          \/ last.op = "Ret" /\ last.stack = <<>>
          \/ EndOfInputSeen
          \/ pc >= MEMORY_SIZE
    /\ (InLoop /\ ~AtBound) => ENABLED Next

\* run ended successfully in an In at the end of input, with pc inside memory
C14_Witness ==
    /\ status = "ok"
    /\ EndOfInputSeen
    /\ pc < MEMORY_SIZE
    /\ last.op # "Halt"

\* the number of operand words of each opcode, as the specification lists it
ClaimedArity(op) ==
    IF op \in {"Halt", "Noop", "Ret"} THEN 0
    ELSE IF op \in {"Out", "Jmp", "Push", "Pop", "Call", "In"} THEN 1
    ELSE IF op \in {"Jt", "Jf", "Set", "Not", "Rmem", "Wmem"} THEN 2
    ELSE IF op \in {"Add", "Eq", "Gt", "And", "Or", "Mult", "Mod"} THEN 3
    ELSE 0

\* the step executed no instruction: it wrote no register, cell, stack entry
\* or output and read no input
NothingExecuted ==
    UNCHANGED <<registers, memory, stack, output, input, chars, lines, delivered>>

\* C15: a word >= 22 at pc makes the decoder fail with the unknown-opcode
\* error, an operand word above 32775 with the operand-encoding error, and in
\* both cases nothing is executed; a decoded operand word in 0..32767 is the
\* Literal of that value, one in 32768..32775 the Register 0..7
C15_DecodeFailures ==
    [][ InLoop =>
          LET word == MemGet(memory, pc)
              n == ClaimedArity(OpFromWord(word))
          IN  /\ word >= 22 =>
                    /\ status' = "err" /\ err' = ErrUnknownOp
                    /\ NothingExecuted
              /\ ( /\ word < 22
                   /\ \E k \in 1..n : /\ pc + k < MEMORY_SIZE
                                      /\ MemGet(memory, pc + k) > 32775 )
                 => /\ status' = "err" /\ err' = ErrArgument
                    /\ NothingExecuted
              /\ read_instruction.err = NoError =>
                    /\ Len(read_instruction.args) = n
                    /\ \A k \in 1..n :
                          LET w == MemGet(memory, pc + k)
                          IN  /\ w <= 32767 =>
                                    read_instruction.args[k] = [kind |-> "Literal", v |-> w]
                              /\ w >= 32768 =>
                                    /\ w <= 32775
                                    /\ read_instruction.args[k]
                                          = [kind |-> "Register", v |-> w - 32768] ]_vars

\* run failed on the operand word 32776 of an Out that followed an executed
\* instruction, and wrote nothing for it
C15_Witness ==
    /\ status = "err"
    /\ err = ErrArgument
    /\ last.op = "Decode"
    /\ last.before # "None"
    /\ MemGet(memory, last.at) = 19
    /\ MemGet(memory, last.at + 1) = 32776
    /\ pc = last.at + 2

\* C17: Set, Add, Mult, Mod, And, Or, Not, Rmem, Eq, Gt, Pop or In with a
\* Literal in the destination slot makes run fail with the error of the
\* catch-all arm; registers, memory and stack are as before (Pop pops
\* nothing) and pc is past the words of the instruction
C17_LiteralDestinationFails ==
    [][ ( /\ InLoop
          /\ read_instruction.err = NoError
          /\ read_instruction.op \in {"Set", "Add", "Mult", "Mod", "And", "Or",
                                      "Not", "Rmem", "Eq", "Gt", "Pop", "In"}
          /\ ArgA.kind = "Literal" )
        => /\ status' = "err"
           /\ err' = ErrUnhandled
           /\ UNCHANGED <<registers, memory, stack>>
           /\ pc' = pc + 1 + ClaimedArity(read_instruction.op) ]_vars

\* run failed on a Pop with a Literal destination and the stack still holds
\* the value pushed before it
C17_Witness ==
    /\ status = "err"
    /\ err = ErrUnhandled
    /\ last.op = "Pop"
    /\ stack # <<>>
    /\ last.stack = stack
    /\ pc = last.at + 2

\* C18: after an instruction that ran without failing and did not override
\* pc (every opcode but Jmp, Call, a taken Jt or Jf, and Ret on a non-empty
\* stack), pc is the address of the opcode word plus 1 plus the number of its
\* operand words: 0 for Halt, Noop, Ret; 1 for Out, Jmp, Push, Pop, Call, In;
\* 2 for Jt, Jf, Set, Not, Rmem, Wmem; 3 for Add, Eq, Gt, And, Or, Mult, Mod
C18_PcAfterInstruction ==
    [][ ( /\ InLoop
          /\ read_instruction.err = NoError
          /\ status' \in {"running", "ok"}
          /\ read_instruction.op \notin {"Jmp", "Call"}
          /\ read_instruction.op = "Jt" => get_value(ArgA) = 0
          /\ read_instruction.op = "Jf" => get_value(ArgA) # 0
          /\ read_instruction.op = "Ret" => stack = <<>> )
        => pc' = pc + 1 + ClaimedArity(read_instruction.op) ]_vars

\* an Add that was not the first instruction has run and left pc four words
\* after its opcode
C18_Witness ==
    /\ status = "running"
    /\ last.op = "Add"
    /\ last.at > 0
    /\ pc = last.at + 4

\* C19: during run only Wmem changes memory, and a Wmem a b that does not
\* fail changes no cell but the one at value(a), which then holds value(b)
C19_OnlyWmemWrites ==
    [][ status = "running" =>
          /\ memory' # memory => Fetched("Wmem")
          /\ (Fetched("Wmem") /\ status' = "running") =>
                LET a == get_value(ArgA)
                    b == get_value(ArgB)
                IN  /\ MemGet(memory', a) = b
                    /\ \A i \in (DOMAIN memory \cup DOMAIN memory') \ {a} :
                          MemGet(memory', i) = MemGet(memory, i) ]_vars

\* a Wmem has put an opcode in one of the last cells, far from the image
C19_Witness ==
    /\ status = "running"
    /\ last.op = "Wmem"
    /\ last.x \in LastCells
    /\ last.y # 0
    /\ MemGet(memory, last.x) = last.y
    /\ MemGet(memory, 0) = 16

\* C20: with pc inside memory and the opcode there needing operand words
\* past the last cell, run fails and executes nothing of the instruction;
\* and run ends successfully at the loop guard, without decoding, only with
\* pc >= MEMORY_SIZE after a whole instruction
C20_OperandsPastEnd ==
    [][ /\ ( /\ InLoop
             /\ MemGet(memory, pc) < 22
             /\ pc + ClaimedArity(OpFromWord(MemGet(memory, pc))) >= MEMORY_SIZE )
           => /\ status' = "err"
              /\ err' \in {ErrReadNext, ErrArgument}
              /\ NothingExecuted
        /\ (status = "running" /\ status' = "ok" /\ UNCHANGED <<pc, last>>)
           => /\ pc >= MEMORY_SIZE
              /\ \/ last.jumped
                 \/ pc = last.at + 1 + ClaimedArity(last.op) ]_vars

\* run failed reading the second operand of the Jt in cell 32765: the read
\* past the last cell is the error, and pc stopped at MEMORY_SIZE
C20_Witness ==
    /\ status = "err"
    /\ err = ErrReadNext
    /\ last.op = "Decode"
    /\ last.at = 32765
    /\ MemGet(memory, 32765) = 7
    /\ pc = MEMORY_SIZE

=============================================================================
